---- MODULE Spec2Model ----
(***************************************************************************)
(* StockAnalyzer (src/stock_analysis.py): the run_analysis pipeline        *)
(*   fetch_data -> calculate_metrics -> generate_visualizations ->         *)
(*   print_summary                                                         *)
(* over the two dictionaries stock_data and analysis_results.              *)
(*                                                                         *)
(* Numbers.  The program computes in IEEE-754 doubles (pandas/numpy).      *)
(* A value is modelled as NaN, +inf, -inf or an exact rational n/d in      *)
(* lowest terms with d > 0.  The special values follow IEEE-754 (x/0,      *)
(* 0/0, inf-inf, inf*0, comparisons with NaN); rounding error of finite    *)
(* values is not modelled.                                                 *)
(*                                                                         *)
(* Data.  yf.download is the environment: for each ticker it raises or     *)
(* answers a frame, possibly empty, with one Close column (the other       *)
(* columns are never read by the metrics).                                 *)
(***************************************************************************)
EXTENDS Integers, Sequences, FiniteSets, TLC

VARIABLES
    tickers,            \* self.tickers: the input list
    feed,               \* what yf.download answers for each ticker of the list
    stock_data,         \* self.stock_data: insertion-ordered dict ticker -> frame
    analysis_results,   \* self.analysis_results: insertion-ordered dict ticker -> record
    pc,                 \* position of run_analysis
    phases,             \* the methods run_analysis has executed so far, in order
    report              \* what print_summary printed as best / worst / most volatile

vars == <<tickers, feed, stock_data, analysis_results, pc, phases, report>>

----------------------------------------------------------------------------
(* Bounds of the model *)

\* Spec: number of tickers of the input list, bars per series.
MaxTickers == 2
MaxBars == 2
\* SpecPrices: bars per series (one ticker, closes that may be non-positive).
MaxWideBars == 4
\* SpecMA: bars per series (one ticker, long series).
MaxLongBars == 201

\* Close prices the data source may answer with.
PipelineCloses == {1, 2}
WideCloses == {-1, 0, 1, 2, 4}

----------------------------------------------------------------------------
(* Program constants *)

MainTickers == <<"AAPL", "TSLA", "GOOGL", "MSFT", "NVDA">>
MA50Window == 50
MA200Window == 200
ChartGridCells == 6

----------------------------------------------------------------------------
(* float64 values *)

NaN == [k |-> "nan", n |-> 0, d |-> 1]
PosInf == [k |-> "inf", n |-> 1, d |-> 1]
NegInf == [k |-> "inf", n |-> -1, d |-> 1]

Abs(x) == IF x < 0 THEN -x ELSE x

RECURSIVE Gcd(_, _)
Gcd(a, b) == IF b = 0 THEN a ELSE Gcd(b, a % b)

\* The rational n/d (d # 0) in lowest terms with a positive denominator.
Num(n, d) ==
    LET s == IF d < 0 THEN -1 ELSE 1
        g == Gcd(Abs(n), Abs(d))
    IN  [k |-> "num", n |-> (s * n) \div g, d |-> (s * d) \div g]

Float(i) == Num(i, 1)
Zero == Float(0)
One == Float(1)
Hundred == Float(100)

IsNaN(x) == x.k = "nan"
IsInf(x) == x.k = "inf"
IsNum(x) == x.k = "num"
Sign(x) == IF x.n < 0 THEN -1 ELSE IF x.n > 0 THEN 1 ELSE 0
Inf(s) == IF s < 0 THEN NegInf ELSE PosInf

FNeg(a) ==
    IF IsNaN(a) THEN NaN
    ELSE IF IsInf(a) THEN Inf(-a.n)
    ELSE Num(-a.n, a.d)

\* a + b; finite operands are added over the least common denominator.
FAdd(a, b) ==
    IF IsNaN(a) \/ IsNaN(b) THEN NaN
    ELSE IF IsInf(a) THEN (IF IsInf(b) /\ b.n # a.n THEN NaN ELSE a)
    ELSE IF IsInf(b) THEN b
    ELSE LET g == Gcd(a.d, b.d)
         IN  Num(a.n * (b.d \div g) + b.n * (a.d \div g), (a.d \div g) * b.d)

FSub(a, b) == FAdd(a, FNeg(b))

FMul(a, b) ==
    IF IsNaN(a) \/ IsNaN(b) THEN NaN
    ELSE IF IsInf(a) \/ IsInf(b)
         THEN (IF Sign(a) = 0 \/ Sign(b) = 0 THEN NaN ELSE Inf(Sign(a) * Sign(b)))
    ELSE Num(a.n * b.n, a.d * b.d)

\* a / b; a zero divisor is +0.0 (the only zero divisors are close prices).
FDiv(a, b) ==
    IF IsNaN(a) \/ IsNaN(b) THEN NaN
    ELSE IF IsInf(a) THEN (IF IsInf(b) THEN NaN
                           ELSE Inf(a.n * (IF b.n < 0 THEN -1 ELSE 1)))
    ELSE IF IsInf(b) THEN Zero
    ELSE IF b.n = 0 THEN (IF a.n = 0 THEN NaN ELSE Inf(Sign(a)))
    ELSE Num(a.n * b.d, a.d * b.n)

\* a < b and a > b as Python compares floats: False when either is NaN.
FLt(a, b) ==
    IF IsNaN(a) \/ IsNaN(b) THEN FALSE
    ELSE IF IsInf(a) THEN a.n < 0 /\ b # NegInf
    ELSE IF IsInf(b) THEN b.n > 0
    ELSE a.n * b.d < b.n * a.d

FGt(a, b) == FLt(b, a)

----------------------------------------------------------------------------
(* pandas Series operations used by calculate_metrics *)

\* TRUE; stating it makes the model checker compute v at this point, before
\* what follows.
Evaluated(v) == v = v

\* The series f with its entries computed now, once, as pandas computes a
\* column when the statement runs.
Computed(f) == IF Evaluated(f) THEN f ELSE f

\* Series.pct_change(): data / data.shift(1) - 1; the first entry has no
\* predecessor (NaN).
PctChange(xs) ==
    Computed([i \in 1..Len(xs) |->
                 IF i = 1 THEN NaN ELSE FSub(FDiv(xs[i], xs[i - 1]), One)])

(* The loops below run over the bars lo..hi from left to right, carrying    *)
(* their accumulator; a range of several bars is run as its first half      *)
(* followed by its second half, which is the same left-to-right pass.       *)

\* Series.cumprod() (skipna): a NaN entry stays NaN and is skipped by the
\* running product.  acc is the product so far, out the entries produced.
RECURSIVE CumProdRange(_, _, _, _)
CumProdRange(xs, lo, hi, acc) ==
    IF lo > hi THEN [acc |-> acc, out |-> <<>>]
    ELSE IF lo = hi
    THEN IF IsNaN(xs[lo])
         THEN [acc |-> acc, out |-> <<NaN>>]
         ELSE [acc |-> FMul(acc, xs[lo]), out |-> <<FMul(acc, xs[lo])>>]
    ELSE LET mid == (lo + hi) \div 2
             left == CumProdRange(xs, lo, mid, acc)
             right == CumProdRange(xs, mid + 1, hi, left.acc)
         IN  IF Evaluated(left)
             THEN [acc |-> right.acc, out |-> left.out \o right.out]
             ELSE left

CumProd(xs) == CumProdRange(xs, 1, Len(xs), One).out

\* Series.rolling(window).mean() with min_periods: the sliding sum adds the
\* entering bar, removes the leaving one and divides by the number of
\* observations once there are min_periods of them.  acc holds the sliding
\* sum and the number of observations.
RollStep(xs, window, minp, i, acc) ==
    LET added == FAdd(acc.sum_x, xs[i])
        s == IF i > window THEN FSub(added, xs[i - window]) ELSE added
        c == IF i > window THEN acc.nobs ELSE acc.nobs + 1
    IN  [acc |-> [sum_x |-> s, nobs |-> c],
         out |-> <<IF c >= minp /\ c > 0 THEN FDiv(s, Float(c)) ELSE NaN>>]

RECURSIVE RollMeanRange(_, _, _, _, _, _)
RollMeanRange(xs, window, minp, lo, hi, acc) ==
    IF lo > hi THEN [acc |-> acc, out |-> <<>>]
    ELSE IF lo = hi THEN RollStep(xs, window, minp, lo, acc)
    ELSE LET mid == (lo + hi) \div 2
             left == RollMeanRange(xs, window, minp, lo, mid, acc)
             right == RollMeanRange(xs, window, minp, mid + 1, hi, left.acc)
         IN  IF Evaluated(left)
             THEN [acc |-> right.acc, out |-> left.out \o right.out]
             ELSE left

\* rolling(window=w, min_periods=1): the mean of the bars there are.
RollingMeanPartial(xs, window) ==
    RollMeanRange(xs, window, 1, 1, Len(xs),
                  [sum_x |-> Zero, nobs |-> 0]).out

\* rolling(window=w): min_periods defaults to the window.
RollingMean(xs, window) ==
    RollMeanRange(xs, window, window, 1, Len(xs),
                  [sum_x |-> Zero, nobs |-> 0]).out

\* The entries a skipna reduction reads.
DropNa(xs) == SelectSeq(xs, LAMBDA x : ~IsNaN(x))

RECURSIVE SumRange(_, _, _, _)
SumRange(xs, lo, hi, acc) ==
    IF lo > hi THEN acc
    ELSE IF lo = hi THEN FAdd(acc, xs[lo])
    ELSE LET mid == (lo + hi) \div 2
             left == SumRange(xs, lo, mid, acc)
         IN  IF Evaluated(left) THEN SumRange(xs, mid + 1, hi, left) ELSE left

Sum(xs) == SumRange(xs, 1, Len(xs), Zero)

\* Series.mean(): NaN when no entry is defined.
NanMean(xs) ==
    LET v == DropNa(xs)
    IN  IF Len(v) = 0 THEN NaN ELSE FDiv(Sum(v), Float(Len(v)))

\* nanvar with ddof: NaN when count - ddof <= 0, else the sum of squared
\* deviations from the mean over count - ddof.
NanVar(xs, ddof) ==
    LET v == DropNa(xs)
        count == Len(v)
        avg == FDiv(Sum(v), Float(count))
        sqr == Computed([i \in 1..count |->
                            FMul(FSub(avg, v[i]), FSub(avg, v[i]))])
    IN  IF count - ddof <= 0 THEN NaN ELSE FDiv(Sum(sqr), Float(count - ddof))

\* std(ddof=0): the population standard deviation (held as its square, like Std).
StdPopulation(xs) == NanVar(xs, 0)

\* Series.std() is sqrt(nanvar(ddof=1)).  The square root of a rational is
\* not a rational: a standard deviation is held as its square, and NaN stays
\* NaN.  Square roots compare as their squares do.
Std(xs) == NanVar(xs, 1)

\* The greatest (least) of the entries lo..hi and of best.
RECURSIVE MaxRange(_, _, _, _)
MaxRange(v, lo, hi, best) ==
    IF lo > hi THEN best
    ELSE IF lo = hi THEN (IF FGt(v[lo], best) THEN v[lo] ELSE best)
    ELSE LET mid == (lo + hi) \div 2
             left == MaxRange(v, lo, mid, best)
         IN  IF Evaluated(left) THEN MaxRange(v, mid + 1, hi, left) ELSE left

RECURSIVE MinRange(_, _, _, _)
MinRange(v, lo, hi, best) ==
    IF lo > hi THEN best
    ELSE IF lo = hi THEN (IF FLt(v[lo], best) THEN v[lo] ELSE best)
    ELSE LET mid == (lo + hi) \div 2
             left == MinRange(v, lo, mid, best)
         IN  IF Evaluated(left) THEN MinRange(v, mid + 1, hi, left) ELSE left

\* Series.max() / Series.min(): NaN when no entry is defined.
NanMax(xs) ==
    LET v == DropNa(xs)
    IN  IF Len(v) = 0 THEN NaN ELSE MaxRange(v, 2, Len(v), v[1])

NanMin(xs) ==
    LET v == DropNa(xs)
    IN  IF Len(v) = 0 THEN NaN ELSE MinRange(v, 2, Len(v), v[1])

----------------------------------------------------------------------------
(* Python dicts: insertion-ordered *)

EmptyDict == [order |-> <<>>, val |-> <<>>]
Keys(dict) == DOMAIN dict.val

\* dict[k] = v: a new key goes last, an existing key keeps its place.
DictPut(dict, k, v) ==
    IF k \in DOMAIN dict.val
    THEN [dict EXCEPT !.val = (k :> v) @@ dict.val]
    ELSE [order |-> Append(dict.order, k), val |-> (k :> v) @@ dict.val]

\* data[column] = series
SetColumn(data, column, series) == (column :> series) @@ data

Range(seq) == {seq[i] : i \in 1..Len(seq)}
SeqsUpTo(S, n) == UNION {[1..k -> S] : k \in 0..n}
Map(xs, Op(_)) == Computed([i \in 1..Len(xs) |-> Op(xs[i])])

----------------------------------------------------------------------------
(* The data source: what yf.download answers for a ticker.  kind "data"     *)
(* carries the close prices of the returned frame (none: an empty frame),   *)
(* kind "error" is an exception raised by the download.                     *)

Downloaded(closes) == [kind |-> "data", close |-> closes]
DownloadError == [kind |-> "error", close |-> <<>>]
Outcomes(closeValues, maxBars) ==
    {Downloaded(c) : c \in SeqsUpTo(closeValues, maxBars)} \cup {DownloadError}

\* The frame yf.download returned: its Close column as float64.
Frame(closes) == "Close" :> Map(closes, Float)

----------------------------------------------------------------------------
(* fetch_data *)

\* One iteration of the loop of fetch_data: the frame is stored unless it is
\* empty; an exception of the download is caught and the ticker skipped.
\* fetch_data without the `if not data.empty` test: an empty frame is stored
\* like any other.
FetchOneKeepsEmpty(sd, ticker, outcome) ==
    IF outcome.kind = "error" THEN sd
    ELSE DictPut(sd, ticker, Frame(outcome.close))

FetchOne(sd, ticker, outcome) ==
    IF outcome.kind = "error" THEN sd
    ELSE IF Len(outcome.close) # 0 THEN DictPut(sd, ticker, Frame(outcome.close))
    ELSE sd

RECURSIVE FetchLoop(_, _, _, _)
FetchLoop(list, source, i, sd) ==
    IF i > Len(list) THEN sd
    ELSE FetchLoop(list, source, i + 1, FetchOne(sd, list[i], source[list[i]]))

----------------------------------------------------------------------------
(* calculate_metrics *)

\* The four derived columns, written into the ticker's frame.
DerivedColumns(data) ==
    LET daily == Map(PctChange(data["Close"]), LAMBDA x : FMul(x, Hundred))
        growth == Map(daily, LAMBDA x : FAdd(One, FDiv(x, Hundred)))
        cumulative == Map(CumProd(growth), LAMBDA x : FSub(x, One))
        d1 == SetColumn(data, "Daily_Return", daily)
        d2 == SetColumn(d1, "Cumulative_Return", cumulative)
        d3 == SetColumn(d2, "MA_50", RollingMean(data["Close"], MA50Window))
    IN  SetColumn(d3, "MA_200", RollingMean(data["Close"], MA200Window))

Last(xs) == xs[Len(xs)]

\* The summary record of a frame with its derived columns (a non-empty frame:
\* iloc[-1] of an empty one raises IndexError).  volatility is held as its
\* square, see Std.
Summary(data) ==
    [total_return     |-> FMul(Last(data["Cumulative_Return"]), Hundred),
     volatility       |-> Std(data["Daily_Return"]),
     avg_daily_return |-> NanMean(data["Daily_Return"]),
     best_day         |-> NanMax(data["Daily_Return"]),
     worst_day        |-> NanMin(data["Daily_Return"]),
     current_price    |-> Last(data["Close"]),
     start_price      |-> data["Close"][1]]

\* A loop body that keeps reading the first frame of stock_data instead of
\* the frame of the ticker it is at.
CalcOneFirstFrame(st, ticker) ==
    LET data == DerivedColumns(st.sd.val[st.sd.order[1]])
        sd1 == DictPut(st.sd, ticker, data)
    IN  IF Len(data["Close"]) = 0
        THEN [sd |-> sd1, ar |-> st.ar, raised |-> TRUE]
        ELSE [sd |-> sd1, ar |-> DictPut(st.ar, ticker, Summary(data)),
              raised |-> FALSE]

\* One iteration of the loop of calculate_metrics on the pair (stock_data,
\* analysis_results): the ticker's own frame gets its columns and is stored
\* back, then its record is stored.  An empty frame raises at iloc[-1],
\* after the columns were written.
CalcOne(st, ticker) ==
    LET data == DerivedColumns(st.sd.val[ticker])
        sd1 == DictPut(st.sd, ticker, data)
    IN  IF Len(data["Close"]) = 0
        THEN [sd |-> sd1, ar |-> st.ar, raised |-> TRUE]
        ELSE [sd |-> sd1, ar |-> DictPut(st.ar, ticker, Summary(data)),
              raised |-> FALSE]

\* A loop that returns after its first iteration.
CalcLoopFirstOnly(order, i, st) ==
    IF i > Len(order) \/ i > 1 THEN st ELSE CalcOne(st, order[i])

\* The loop over stock_data.items(), in insertion order.
RECURSIVE CalcLoop(_, _, _)
CalcLoop(order, i, st) ==
    IF i > Len(order) \/ st.raised THEN st
    ELSE CalcLoop(order, i + 1, CalcOne(st, order[i]))

----------------------------------------------------------------------------
(* generate_visualizations *)

\* What makes a chart fail: a seventh ticker has no cell in the 2 x 3 grid
\* (IndexError), and the histogram of daily returns rejects an infinite value
\* (ValueError).
ChartsRaise(sd) ==
    \/ Len(sd.order) > ChartGridCells
    \/ \E t \in Keys(sd) : \E i \in DOMAIN sd.val[t]["Daily_Return"] :
           IsInf(sd.val[t]["Daily_Return"][i])

----------------------------------------------------------------------------
(* print_summary *)

\* max(items, key=...): the first item is kept until a later one compares
\* greater.
RECURSIVE MaxItemFrom(_, _, _, _)
MaxItemFrom(ar, key, i, best) ==
    IF i > Len(ar.order) THEN best
    ELSE MaxItemFrom(ar, key, i + 1,
             IF FGt(ar.val[ar.order[i]][key], ar.val[best][key])
             THEN ar.order[i] ELSE best)

\* min(items, key=...): the first item is kept until a later one compares
\* less.
RECURSIVE MinItemFrom(_, _, _, _)
MinItemFrom(ar, key, i, best) ==
    IF i > Len(ar.order) THEN best
    ELSE MinItemFrom(ar, key, i + 1,
             IF FLt(ar.val[ar.order[i]][key], ar.val[best][key])
             THEN ar.order[i] ELSE best)

MaxItem(ar, key) == MaxItemFrom(ar, key, 2, ar.order[1])
MinItem(ar, key) == MinItemFrom(ar, key, 2, ar.order[1])

NoReport == [best_stock |-> "", worst_stock |-> "", most_volatile |-> ""]

\* The three performers print_summary names; nothing when there is no record.
Performers(ar) ==
    IF Len(ar.order) = 0 THEN NoReport
    ELSE [best_stock    |-> MaxItem(ar, "total_return"),
          worst_stock   |-> MinItem(ar, "total_return"),
          most_volatile |-> MaxItem(ar, "volatility")]

----------------------------------------------------------------------------
(* run_analysis *)

\* `if not self.stock_data`
\* run_analysis without the `if not self.stock_data` test.
NoDataFetchedIgnored(sd) == FALSE

NoDataFetched(sd) == Len(sd.order) = 0

FetchData ==
    /\ pc = "start"
    /\ stock_data' = FetchLoop(tickers, feed, 1, stock_data)
    /\ pc' = "fetched"
    /\ phases' = Append(phases, "fetch_data")
    /\ UNCHANGED <<tickers, feed, analysis_results, report>>

\* "No data fetched. Exiting."
ExitNoData ==
    /\ pc = "fetched"
    /\ NoDataFetched(stock_data)
    /\ pc' = "exited"
    /\ UNCHANGED <<tickers, feed, stock_data, analysis_results, phases, report>>

CalculateMetrics ==
    /\ pc = "fetched"
    /\ ~NoDataFetched(stock_data)
    /\ LET st == CalcLoop(stock_data.order, 1,
                          [sd |-> stock_data, ar |-> analysis_results,
                           raised |-> FALSE])
       IN  /\ stock_data' = st.sd
           /\ analysis_results' = st.ar
           /\ pc' = IF st.raised THEN "crashed" ELSE "calculated"
    /\ phases' = Append(phases, "calculate_metrics")
    /\ UNCHANGED <<tickers, feed, report>>

GenerateVisualizations ==
    /\ pc = "calculated"
    /\ pc' = IF ChartsRaise(stock_data) THEN "crashed" ELSE "visualized"
    /\ phases' = Append(phases, "generate_visualizations")
    /\ UNCHANGED <<tickers, feed, stock_data, analysis_results, report>>

PrintSummary ==
    /\ pc = "visualized"
    /\ report' = Performers(analysis_results)
    /\ pc' = "done"
    /\ phases' = Append(phases, "print_summary")
    /\ UNCHANGED <<tickers, feed, stock_data, analysis_results>>

Next ==
    \/ FetchData
    \/ ExitNoData
    \/ CalculateMetrics
    \/ GenerateVisualizations
    \/ PrintSummary

\* A fresh StockAnalyzer(tickers, ...) and the answers its downloads will get.
Fresh ==
    /\ stock_data = EmptyDict
    /\ analysis_results = EmptyDict
    /\ pc = "start"
    /\ phases = <<>>
    /\ report = NoReport

\* Up to MaxTickers tickers of main's list, series of up to MaxBars bars.
Init ==
    /\ tickers \in {SubSeq(MainTickers, 1, n) : n \in 0..MaxTickers}
    /\ feed \in [Range(tickers) -> Outcomes(PipelineCloses, MaxBars)]
    /\ Fresh

Spec == Init /\ [][Next]_vars

\* One ticker whose closes may be zero or negative.
InitPrices ==
    /\ tickers = SubSeq(MainTickers, 1, 1)
    /\ feed \in [Range(tickers) -> Outcomes(WideCloses, MaxWideBars)]
    /\ Fresh

SpecPrices == InitPrices /\ [][Next]_vars

\* A long series: close 2 on the bars from `up` to before `down`, else 1.
LongSeries(n, up, down) ==
    Computed([i \in 1..n |-> IF up <= i /\ i < down THEN 2 ELSE 1])
LongShapes == {<<1, 1>>, <<30, 999>>, <<60, 150>>}

\* One ticker with a series long enough for both moving averages.
InitMA ==
    /\ tickers = SubSeq(MainTickers, 1, 1)
    /\ feed \in [Range(tickers) ->
                   {Downloaded(LongSeries(n, sh[1], sh[2])) :
                        n \in 0..MaxLongBars, sh \in LongShapes}
                   \cup {DownloadError}]
    /\ Fresh

SpecMA == InitMA /\ [][Next]_vars

----------------------------------------------------------------------------
(* Vocabulary of the properties *)

\* The download of ticker t answered with a non-empty series.
Usable(t) == feed[t].kind = "data" /\ Len(feed[t].close) > 0
UsableTickers == {t \in Range(tickers) : Usable(t)}

\* calculate_metrics has run.
MetricsDone == "calculate_metrics" \in Range(phases)

Closes(t) == stock_data.val[t]["Close"]
Column(t, name) == stock_data.val[t][name]
Record(t) == analysis_results.val[t]
PositiveCloses(t) == \A i \in 1..Len(Closes(t)) : FGt(Closes(t)[i], Zero)

PipelineOrder ==
    <<"fetch_data", "calculate_metrics", "generate_visualizations",
      "print_summary">>

----------------------------------------------------------------------------
(* C1: a ticker whose download answers with an empty series or raises is    *)
(* never stored by fetch_data and never gets a summary record; every other  *)
(* ticker of the list is stored and, once calculate_metrics has run, has     *)
(* its record.                                                              *)
C1_FailedTickersExcluded ==
    pc # "start" =>
        \A t \in Range(tickers) :
            IF Usable(t)
            THEN /\ t \in Keys(stock_data)
                 /\ MetricsDone => t \in Keys(analysis_results)
            ELSE /\ t \notin Keys(stock_data)
                 /\ t \notin Keys(analysis_results)

\* The first ticker of the list fails, a later one is analysed.
C1_Witness ==
    /\ pc = "done"
    /\ Len(tickers) >= 2
    /\ ~Usable(tickers[1])
    /\ tickers[2] \in Keys(analysis_results)

----------------------------------------------------------------------------
(* C2: when no ticker of the list has a usable series, run_analysis stops   *)
(* after fetch_data with the "No data fetched" outcome: no later phase      *)
(* runs, analysis_results stays empty, and the exit is the step taken.      *)
C2_NothingToAnalyze ==
    (pc # "start" /\ UsableTickers = {}) =>
        /\ pc \in {"fetched", "exited"}
        /\ phases = <<"fetch_data">>
        /\ Keys(analysis_results) = {}
        /\ report = NoReport
        /\ pc = "fetched" => (ENABLED ExitNoData /\ ~ENABLED CalculateMetrics)

\* A list of two tickers, one download raising and one answering empty.
C2_Witness ==
    /\ pc = "exited"
    /\ Len(tickers) = 2
    /\ feed[tickers[1]].kind = "error"
    /\ feed[tickers[2]].kind = "data"

----------------------------------------------------------------------------
(* C3: a stored series with a zero or negative close gets no summary        *)
(* record (InvalidPriceData for that ticker only), and every stored series  *)
(* of positive closes gets its record.                                      *)
C3_InvalidPriceRejected ==
    MetricsDone =>
        \A t \in Keys(stock_data) :
            IF PositiveCloses(t)
            THEN t \in Keys(analysis_results)
            ELSE t \notin Keys(analysis_results)

----------------------------------------------------------------------------
(* C4: for a series of positive closes the cumulative return is defined at  *)
(* every bar, is 0 at the first bar, from the second bar on is the running  *)
(* product of the daily growth factors minus 1, and close[first] times      *)
(* (1 + cumulative return) gives back the bar's close.                      *)
GrowthFactor(t, k) == FAdd(One, FDiv(Column(t, "Daily_Return")[k], Hundred))

RECURSIVE GrowthProduct(_, _)
GrowthProduct(t, i) ==
    IF i <= 1 THEN One ELSE FMul(GrowthProduct(t, i - 1), GrowthFactor(t, i))

CumulativeReturnAt(t, i) ==
    LET cr == Column(t, "Cumulative_Return")[i]
    IN  /\ IsNum(cr)
        /\ i = 1 => cr = Zero
        /\ i >= 2 => cr = FSub(GrowthProduct(t, i), One)
        /\ FMul(Closes(t)[1], FAdd(One, cr)) = Closes(t)[i]

C4_CumulativeReturnCompounds ==
    MetricsDone =>
        \A t \in Keys(stock_data) :
            PositiveCloses(t) =>
                \A i \in 1..Len(Closes(t)) : CumulativeReturnAt(t, i)

\* What the code does satisfy: the same from the second bar on, the first
\* bar's cumulative return being NaN.
CumulativeReturnFromSecondBar ==
    MetricsDone =>
        \A t \in Keys(stock_data) :
            PositiveCloses(t) =>
                /\ IsNaN(Column(t, "Cumulative_Return")[1])
                /\ \A i \in 2..Len(Closes(t)) : CumulativeReturnAt(t, i)

----------------------------------------------------------------------------
(* C5: a series of exactly one bar has no defined daily return and a        *)
(* summary record whose total_return is 0.                                  *)
C5_SingleBarTotalReturnZero ==
    MetricsDone =>
        \A t \in Keys(stock_data) :
            Len(Closes(t)) = 1 =>
                /\ Column(t, "Daily_Return") = <<NaN>>
                /\ t \in Keys(analysis_results)
                /\ Record(t).total_return = Zero

----------------------------------------------------------------------------
(* C6: MA_50 is defined exactly from the 50th bar on (0-based index >= 49)  *)
(* and MA_200 exactly from the 200th bar on; where defined it is the mean   *)
(* of the last 50 (200) closes ending at the bar; a series shorter than the *)
(* window has the average undefined at every bar and still gets its record. *)

\* The sum of the closes of the window bars i-window+1..i, counted value by
\* value.
RECURSIVE WeightedCount(_, _, _)
WeightedCount(values, xs, bars) ==
    IF values = {} THEN 0
    ELSE LET v == CHOOSE x \in values : TRUE
         IN  v.n * Cardinality({j \in bars : xs[j] = v})
                 + WeightedCount(values \ {v}, xs, bars)

WindowMean(xs, i, window) ==
    LET bars == (i - window + 1)..i
    IN  Num(WeightedCount({xs[j] : j \in bars}, xs, bars), window)

MovingAverageAt(t, name, window, i) ==
    LET ma == Column(t, name)[i]
    IN  IF i >= window
        THEN ma = WindowMean(Closes(t), i, window)
        ELSE IsNaN(ma)

C6_MovingAverageWindows ==
    MetricsDone =>
        \A t \in Keys(stock_data) :
            /\ t \in Keys(analysis_results)
            /\ Len(Column(t, "MA_50")) = Len(Closes(t))
            /\ Len(Column(t, "MA_200")) = Len(Closes(t))
            /\ \A i \in 1..Len(Closes(t)) :
                   /\ MovingAverageAt(t, "MA_50", MA50Window, i)
                   /\ MovingAverageAt(t, "MA_200", MA200Window, i)

\* A series of at least 200 bars whose closes change inside the windows:
\* both averages undefined just before their window fills, defined and not
\* whole numbers at it.
C6_Witness ==
    /\ pc = "done"
    /\ \E t \in Keys(stock_data) :
           /\ Len(Closes(t)) >= MA200Window
           /\ IsNaN(Column(t, "MA_50")[MA50Window - 1])
           /\ IsNum(Column(t, "MA_50")[MA50Window])
           /\ Column(t, "MA_50")[MA50Window].d # 1
           /\ IsNaN(Column(t, "MA_200")[MA200Window - 1])
           /\ IsNum(Column(t, "MA_200")[MA200Window])
           /\ Column(t, "MA_200")[MA200Window].d # 1

----------------------------------------------------------------------------
(* C7: print_summary names as best performer a ticker with the greatest     *)
(* total_return, as worst performer one with the least total_return and as  *)
(* most volatile one with the greatest volatility, the first such ticker in *)
(* input order, also when some record holds an undefined (NaN) value: the   *)
(* extreme is then the extreme of the defined values.                       *)
Position(t) == CHOOSE i \in 1..Len(tickers) : tickers[i] = t

\* b holds the greatest defined value of key, and no earlier ticker does.
FirstGreatest(b, key) ==
    LET val(t) == Record(t)[key]
    IN  (\E t \in Keys(analysis_results) : ~IsNaN(val(t))) =>
            /\ ~IsNaN(val(b))
            /\ \A t \in Keys(analysis_results) :
                   /\ ~FGt(val(t), val(b))
                   /\ Position(t) < Position(b) => val(t) # val(b)

FirstLeast(b, key) ==
    LET val(t) == Record(t)[key]
    IN  (\E t \in Keys(analysis_results) : ~IsNaN(val(t))) =>
            /\ ~IsNaN(val(b))
            /\ \A t \in Keys(analysis_results) :
                   /\ ~FLt(val(t), val(b))
                   /\ Position(t) < Position(b) => val(t) # val(b)

NoNaN(key) == \A t \in Keys(analysis_results) : ~IsNaN(Record(t)[key])

PerformersAreExtremesWithoutNaN ==
    (pc = "done" /\ Keys(analysis_results) # {}) =>
        /\ NoNaN("total_return") =>
               /\ FirstGreatest(report.best_stock, "total_return")
               /\ FirstLeast(report.worst_stock, "total_return")
        /\ NoNaN("volatility") =>
               FirstGreatest(report.most_volatile, "volatility")

----------------------------------------------------------------------------
(* C8: the volatility of a series of positive closes is never negative; it  *)
(* is 0 exactly when all defined daily returns are identical, series of two *)
(* bars (one defined daily return) included; for a series of one bar it is  *)
(* the not-computable value (NaN), not 0.                                   *)
DefinedReturns(t) == DropNa(Column(t, "Daily_Return"))

ReturnsIdentical(t) ==
    \A i, j \in 1..Len(DefinedReturns(t)) :
        DefinedReturns(t)[i] = DefinedReturns(t)[j]

\* volatility is held as its square: it is 0 or negative exactly when its
\* square is.
VolatilityFrom(t, minBars) ==
    LET vol == Record(t).volatility
    IN  /\ ~FLt(vol, Zero)
        /\ Len(Closes(t)) < minBars => IsNaN(vol)
        /\ Len(Closes(t)) >= minBars =>
               /\ IsNum(vol)
               /\ vol = Zero <=> ReturnsIdentical(t)

C8_VolatilityFromTwoBars ==
    MetricsDone =>
        \A t \in Keys(analysis_results) :
            PositiveCloses(t) => VolatilityFrom(t, 2)

(* C8 as amended: the volatility of a series of positive closes is never    *)
(* negative; with three or more bars (two or more defined daily returns) it *)
(* is a number that is 0 exactly when all defined daily returns are         *)
(* identical; with one or two bars it is the not-computable value (NaN),    *)
(* not 0.                                                                   *)
C8_VolatilityFromThreeBars ==
    MetricsDone =>
        \A t \in Keys(analysis_results) :
            PositiveCloses(t) => VolatilityFrom(t, 3)

\* A series of three bars growing by the same non-zero factor: two identical
\* daily returns, volatility 0.
C8_Witness ==
    /\ pc = "done"
    /\ \E t \in Keys(analysis_results) :
           /\ PositiveCloses(t)
           /\ Len(Closes(t)) = 3
           /\ DefinedReturns(t)[1] # Zero
           /\ ReturnsIdentical(t)
           /\ Record(t).volatility = Zero

----------------------------------------------------------------------------
(* C9: the derived series and the record of a ticker are a function of that *)
(* ticker's closes alone: they are what the computation gives on the        *)
(* downloaded closes, equal for two tickers with equal closes whatever      *)
(* their place and the other series; every processing order of the stored   *)
(* tickers gives the same frames and records; and one ticker's computation  *)
(* leaves the closes of every series and the other tickers' frames and      *)
(* records as they were.                                                    *)
Orderings(n) ==
    {p \in [1..n -> 1..n] : \A i, j \in 1..n : p[i] = p[j] => i = j}

Loaded == [sd |-> stock_data, ar |-> analysis_results, raised |-> FALSE]

Processed(order) ==
    LET st == CalcLoop(order, 1, Loaded)
    IN  [frames |-> st.sd.val, records |-> st.ar.val]

OrderIndependent ==
    LET order == stock_data.order
    IN  \A p \in Orderings(Len(order)) :
            Processed([i \in 1..Len(order) |-> order[p[i]]]) = Processed(order)

OneTickerOnly ==
    \A t \in Keys(stock_data) :
        LET after == CalcOne(Loaded, t)
        IN  /\ \A u \in Keys(stock_data) :
                   after.sd.val[u]["Close"] = Closes(u)
            /\ \A u \in Keys(stock_data) \ {t} :
                   after.sd.val[u] = stock_data.val[u]
            /\ Keys(after.ar) = Keys(analysis_results) \cup {t}
            /\ \A u \in Keys(analysis_results) \ {t} :
                   after.ar.val[u] = Record(u)

OwnFrame(t, data) ==
    /\ Closes(t) = Map(feed[t].close, Float)
    /\ stock_data.val[t] = data
    /\ Record(t) = Summary(data)

FunctionOfOwnCloses ==
    /\ \A t \in Keys(stock_data) :
           OwnFrame(t, DerivedColumns(Frame(feed[t].close)))
    /\ \A t, u \in Keys(stock_data) :
           feed[t].close = feed[u].close =>
               /\ stock_data.val[t] = stock_data.val[u]
               /\ Record(t) = Record(u)

C9_MetricsPerTicker ==
    /\ pc = "fetched" => (OrderIndependent /\ OneTickerOnly)
    /\ pc \in {"calculated", "visualized", "done"} => FunctionOfOwnCloses

\* Two stored tickers with different series of several bars, both analysed.
C9_Witness ==
    /\ pc = "done"
    /\ Len(stock_data.order) >= 2
    /\ LET t == stock_data.order[1]
           u == stock_data.order[2]
       IN  /\ Len(Closes(t)) >= 2
           /\ Len(Closes(u)) >= 2
           /\ Closes(t) # Closes(u)
           /\ Record(t) # Record(u)

----------------------------------------------------------------------------
(* C10: the phases of run_analysis run in the order fetch_data,             *)
(* calculate_metrics, generate_visualizations, print_summary, and whenever  *)
(* generate_visualizations or print_summary runs, the tickers with a        *)
(* summary record are the tickers of stock_data, which are the tickers of   *)
(* the list whose download answered with a non-empty series.                *)
C10_PhaseOrderAndKeys ==
    /\ Len(phases) <= Len(PipelineOrder)
    /\ phases = SubSeq(PipelineOrder, 1, Len(phases))
    /\ (pc \in {"calculated", "visualized"} \/ Len(phases) >= 3) =>
           /\ Keys(analysis_results) = Keys(stock_data)
           /\ Keys(stock_data) = UsableTickers

\* A full run over a list with one failing and one usable ticker.
C10_Witness ==
    /\ pc = "done"
    /\ phases = PipelineOrder
    /\ UsableTickers # {}
    /\ UsableTickers # Range(tickers)

====
